---- MODULE Spec2Model ----
(***************************************************************************)
(* State-machine model of the QrScanner component (src/src/QrScanner.vue): *)
(* the frame loop, the native/WASM engine selection with fallback, and the *)
(* pause / resume / scan-once / switch-camera controls.                    *)
(*                                                                         *)
(* The component is single-threaded and asynchronous.  A handler runs      *)
(* without interruption up to an await on an external promise              *)
(* (getUserMedia, video.play, detector.detect, readBarcodes) or up to the  *)
(* next animation frame; each such run is one action of the model.  An     *)
(* await on a value that is already settled (await video.pause(), await    *)
(* initDetector(), await readFrame() on a skipped frame) only yields to    *)
(* the microtask queue, where no camera, detector or animation-frame       *)
(* callback can run, so it does not split an action.                       *)
(*                                                                         *)
(* Every handler is a function from the session (the mutable fields of     *)
(* setup()) to the session.  The XEffects sets hold the sessions a handler *)
(* may end in from the current state, one per input; an action commits one *)
(* of them.  Properties of one handler run are stated over these sets.     *)
(***************************************************************************)
EXTENDS Integers, Sequences, FiniteSets, TLC

\* ------------------------------------------------------------------ bounds
MaxTasks == 2         \* frame cycles plus suspended start()/resumeInternal() calls
MaxNow == 1           \* last reading of the clock performance.now()
MaxStreak == 2        \* zeroFrameStreak is followed up to this value
MaxLeak == 1          \* cap of the count of abandoned live streams

\* --------------------------------------------------------- values of props
SkipInterval == 3     \* the frameInterval above 1 that is tried
TimeoutMs == 1        \* the non-zero bdTimeoutMs that is tried
MaxZeroFrames == 2    \* the non-zero bdMaxZeroFrames that is tried

\* ------------------------------------------- inputs of the pure functions
MaxSide == 6          \* frame widths and heights 1..MaxSide
MaxPad == 4           \* roiPadding -1..MaxPad
RatioDen == 4         \* roiSizeRatio k/RatioDen for k in 1..RatioDen
MaxCoord == 2         \* corner coordinates 0..MaxCoord of the polygons smoothed
MaxRuns == 2          \* calls of emaCorners in a row on the smoothing memory
MaxEdge == 6          \* ROI widths and heights 0..MaxEdge given to drawCornerBorder
MaxRadius == 2        \* roiRadius 0..MaxRadius
MaxLength == 4        \* roiCornerLength 0..MaxLength

VARIABLES
  props,            \* component props (paused is changed by the parent)
  hasBD,            \* globalThis.BarcodeDetector exists on the host
  now,              \* performance.now()
  lifecycle,        \* "created" | "mounted" | "unmounted"
  video,            \* video.value: [attached, paused]
  state,            \* reactive state: [running, usingBack]
  stream,           \* "none" (undefined) | "live" | "stopped" (tracks stopped)
  leaked,           \* acquired streams with running tracks that `stream` no longer names
  raf,              \* TRUE iff the animation-frame request whose id is in `raf` is pending
  lostRaf,          \* pending animation-frame requests whose id was overwritten in `raf`
  detector,         \* "null" | "bd"
  usingBarcodeAPI,
  frameCount,
  zeroFrameStreak,
  bdStartTs,
  loops,            \* loop() invocations suspended in readFrame: pc -> count
  starts,           \* start() invocations suspended: <<pc, caller>> -> count
  resumes,          \* resumeInternal() invocations suspended at await video.play()
  engineEvt,        \* identity carried by the most recent engine-change event
  hist,             \* history kept for the properties
  calc              \* a call of a pure function: its inputs and, once made, its result

vars == <<props, hasBD, now, lifecycle, video, state, stream, leaked, raf,
          lostRaf, detector, usingBarcodeAPI, frameCount, zeroFrameStreak,
          bdStartTs, loops, starts, resumes, engineEvt, hist, calc>>

\* ------------------------------------------------------- frame and results
VideoWidth == 8       \* vid.videoWidth of the camera frames
VideoHeight == 6      \* vid.videoHeight of the camera frames

Pt(x, y) == [x |-> x, y |-> y]

\* A DetectedCode (src/src/types.ts): corners is optional.
Code(hasCorners, pts) == [rawValue |-> "qr", hasCorners |-> hasCorners, corners |-> pts]

Floor(n, d) == n \div d     \* Math.floor of n/d for d > 0

Min2(a, b) == IF a <= b THEN a ELSE b
Max2(a, b) == IF a >= b THEN a ELSE b

\* roiRect with the two branches of the aspect test exchanged
roiRectTransposed(cw, ch, p) ==
  LET shortSide == Min2(cw, ch)
      base == Max2(0, Floor(shortSide * p.roiSizeRatio.num, p.roiSizeRatio.den))
      asp == IF p.roiAspect.num * 100 >= p.roiAspect.den
               THEN p.roiAspect ELSE [num |-> 1, den |-> 100]
      w0 == IF p.roiShape = "rect" /\ asp.num >= asp.den
              THEN Floor(base * asp.den, asp.num) ELSE base
      h0 == IF p.roiShape = "rect" /\ asp.num < asp.den
              THEN Floor(base * asp.num, asp.den) ELSE base
      pad == Max2(0, p.roiPadding)
  IN [x |-> Floor(cw - w0, 2) + pad, y |-> Floor(ch - h0, 2) + pad,
      w |-> Max2(0, w0 - 2 * pad), h |-> Max2(0, h0 - 2 * pad)]

\* roiRect that shrinks by the padding without the floor at 0
roiRectNoFloor(cw, ch, p) ==
  LET shortSide == Min2(cw, ch)
      base == Max2(0, Floor(shortSide * p.roiSizeRatio.num, p.roiSizeRatio.den))
      asp == IF p.roiAspect.num * 100 >= p.roiAspect.den
               THEN p.roiAspect ELSE [num |-> 1, den |-> 100]
      w0 == IF p.roiShape = "rect" /\ asp.num < asp.den
              THEN Floor(base * asp.num, asp.den) ELSE base
      h0 == IF p.roiShape = "rect" /\ asp.num >= asp.den
              THEN Floor(base * asp.den, asp.num) ELSE base
      pad == Max2(0, p.roiPadding)
  IN [x |-> Floor(cw - w0, 2) + pad, y |-> Floor(ch - h0, 2) + pad,
      w |-> w0 - 2 * pad, h |-> h0 - 2 * pad]

\* roiRect: aspect and size ratio are the rationals num/den.
roiRect(cw, ch, p) ==
  LET shortSide == Min2(cw, ch)
      base == Max2(0, Floor(shortSide * p.roiSizeRatio.num, p.roiSizeRatio.den))
      \* Math.max(0.01, roiAspect)
      asp == IF p.roiAspect.num * 100 >= p.roiAspect.den
               THEN p.roiAspect ELSE [num |-> 1, den |-> 100]
      w0 == IF p.roiShape = "rect" /\ asp.num < asp.den
              THEN Floor(base * asp.num, asp.den) ELSE base
      h0 == IF p.roiShape = "rect" /\ asp.num >= asp.den
              THEN Floor(base * asp.den, asp.num) ELSE base
      x0 == Floor(cw - w0, 2)
      y0 == Floor(ch - h0, 2)
      pad == Max2(0, p.roiPadding)
  IN [x |-> x0 + pad, y |-> y0 + pad,
      w |-> Max2(0, w0 - 2 * pad), h |-> Max2(0, h0 - 2 * pad)]

\* SMOOTH_ALPHA = 0.35 = AlphaNum / AlphaDen
AlphaNum == 7
AlphaDen == 20

\* A polygon held in smoothCorners: null, or corners whose coordinates are
\* the fractions x/den, y/den.
Absent == [present |-> FALSE, den |-> 1, pts |-> <<>>]
Poly(pts) == [present |-> TRUE, den |-> 1, pts |-> pts]

\* a blend that steps from the new point towards the previous one
BlendBack(a, da, b, db) == AlphaDen * b * da + AlphaNum * (a * db - b * da)

\* prev + SMOOTH_ALPHA * (p - prev) for prev = a/da and p = b/db, over
\* the denominator AlphaDen * da * db
Blend(a, da, b, db) == AlphaDen * a * db + AlphaNum * (b * da - a * db)

\* the blend of the i-th corners of prev and next
BlendPts(prev, next) ==
  [i \in 1..Len(next.pts) |->
     Pt(Blend(prev.pts[i].x, prev.den, next.pts[i].x, next.den),
        Blend(prev.pts[i].y, prev.den, next.pts[i].y, next.den))]

\* emaCorners that tests only for a missing prev and blends the corners
\* that both polygons have
emaCornersAnyLength(prev, next) ==
  IF ~prev.present THEN [present |-> TRUE, den |-> next.den, pts |-> next.pts]
  ELSE [present |-> TRUE, den |-> AlphaDen * prev.den * next.den,
        pts |-> [i \in 1..Len(next.pts) |->
                   IF i <= Len(prev.pts)
                     THEN BlendPts(prev, next)[i]
                     ELSE Pt(AlphaDen * prev.den * next.pts[i].x,
                             AlphaDen * prev.den * next.pts[i].y)]]

emaCorners(prev, next) ==
  IF ~prev.present \/ Len(prev.pts) # Len(next.pts)
    THEN [present |-> TRUE, den |-> next.den, pts |-> next.pts]
    ELSE [present |-> TRUE, den |-> AlphaDen * prev.den * next.den,
          pts |-> BlendPts(prev, next)]

RECURSIVE SumX(_), SumY(_)
SumX(pts) == IF pts = <<>> THEN 0 ELSE Head(pts).x + SumX(Tail(pts))
SumY(pts) == IF pts = <<>> THEN 0 ELSE Head(pts).y + SumY(Tail(pts))

\* centroid: the mean of the vertices, kept as the exact fractions xn/d, yn/d.
centroid(pts) == [xn |-> SumX(pts), yn |-> SumY(pts), d |-> Len(pts)]

\* the containment test with the edges left out
insideOpen(c, r) ==
  /\ c.d > 0
  /\ c.xn > r.x * c.d /\ c.xn < (r.x + r.w) * c.d
  /\ c.yn > r.y * c.d /\ c.yn < (r.y + r.h) * c.d

\* The containment test of loop(): c.x >= r.x && c.x <= r.x+r.w && ...
inside(c, r) ==
  /\ c.d > 0                 \* 0/0 is NaN and every comparison with NaN is false
  /\ c.xn >= r.x * c.d /\ c.xn <= (r.x + r.w) * c.d
  /\ c.yn >= r.y * c.d /\ c.yn <= (r.y + r.h) * c.d

\* The ROI filter of loop(): results[0]?.corners (an empty array is truthy).
filterResults(results, p, overlayAttached) ==
  IF p.filterInsideRoi /\ results # <<>> /\ results[1].hasCorners /\ overlayAttached
    THEN IF inside(centroid(results[1].corners), roiRect(VideoWidth, VideoHeight, p))
           THEN results ELSE <<>>
    ELSE results

\* ------------------------------------------------------- the session record
\* Besides the fields of setup(), a session records what the handler run that
\* produced it did: `out` the events it emitted, `draws` its drawOverlay calls,
\* `detects` its backend calls, `sched` whether it requested an animation
\* frame, `passed` whether readFrame got past its throttle, `inits` and `ticks`
\* its runs of initDetector and of loop's body, `stopped` whether scanOnce
\* stopped the loop, `nativeRes` what a native detection call settled with,
\* `region` the part of the frame it handed to a backend.
NoRegion == [x |-> 0, y |-> 0, w |-> -1, h |-> -1]    \* no backend call made
LoopPcs == {"native", "wasm"}
StartPcs == {"gum", "play", "abort"}   \* abort: the play() promise will reject
Callers == {"mount", "other"}          \* onMounted catches, the others do not
LoopKeys == LoopPcs
\* Nothing runs after a rejection that onMounted does not catch.
StartKeys == (StartPcs \X Callers) \ {<<"abort", "other">>}

Cur ==
  [video |-> video, state |-> state, stream |-> stream, leaked |-> leaked,
   raf |-> raf, lostRaf |-> lostRaf, detector |-> detector,
   usingBarcodeAPI |-> usingBarcodeAPI, frameCount |-> frameCount,
   zeroFrameStreak |-> zeroFrameStreak, bdStartTs |-> bdStartTs,
   loops |-> loops, starts |-> starts, resumes |-> resumes,
   out |-> <<>>, draws |-> 0, detects |-> 0, sched |-> FALSE, passed |-> FALSE,
   inits |-> 0, ticks |-> 0, stopped |-> FALSE, nativeRes |-> "none",
   region |-> NoRegion]

Emit(s, e) == [s EXCEPT !.out = Append(@, e)]

EngineChange(name) == [type |-> "engine-change", engine |-> name, n |-> 0]
DetectEvt(results) == [type |-> "detect", engine |-> "", n |-> Len(results)]
ErrorEvt == [type |-> "error", engine |-> "", n |-> 0]

RECURSIVE SumOver(_, _)
SumOver(f, keys) ==
  IF keys = {} THEN 0
  ELSE LET k == CHOOSE k \in keys : TRUE IN f[k] + SumOver(f, keys \ {k})

InFlight(s) == SumOver(s.loops, LoopKeys)
\* frame cycles alive: scheduled ticks plus loop() calls awaiting a backend
Chains(s) == (IF s.raf THEN 1 ELSE 0) + s.lostRaf + InFlight(s)
Starting(s) == SumOver(s.starts, StartKeys)
Pending(s) == Starting(s) + s.resumes

\* video.pause(): pending play() promises are rejected (AbortError).
AbortPlays(st) ==
  [k \in StartKeys |->
     IF k[1] = "play" THEN 0
     ELSE IF k[1] = "abort" THEN st[k] + st[<<"play", k[2]>>]
     ELSE st[k]]

\* stream?.getTracks().forEach(t => t.stop())
StopTracks(st) == IF st = "live" THEN "stopped" ELSE st

\* requestAnimationFrame(loop) stored in raf: an id still pending is overwritten.
requestFrame(s) ==
  [s EXCEPT !.lostRaf = IF s.raf THEN @ + 1 ELSE @, !.raf = TRUE, !.sched = TRUE]

\* cancelAnimationFrame(raf): cancels the one request whose id raf holds.
cancelFrame(s) == [s EXCEPT !.raf = FALSE]

\* pauseInternal that keeps the stream whatever releaseOnPause says
pauseKeepsStream(s) ==
  LET s1 == cancelFrame(s)
      s2 == IF s1.video.attached /\ ~s1.video.paused
              THEN [s1 EXCEPT !.video.paused = TRUE, !.starts = AbortPlays(@)]
              ELSE s1
  IN [s2 EXCEPT !.state.running = FALSE]

pauseInternal(s) ==
  LET s1 == cancelFrame(s)
      s2 == IF s1.video.attached /\ ~s1.video.paused
              THEN [s1 EXCEPT !.video.paused = TRUE, !.starts = AbortPlays(@)]
              ELSE s1
      s3 == IF props.releaseOnPause
              THEN [s2 EXCEPT !.stream = "none"]   \* tracks stopped, handle dropped
              ELSE s2
  IN [s3 EXCEPT !.state.running = FALSE]

\* an initDetector that does not look at preferWasm
initDetectorAlwaysNative(s, ctorOk) ==
  IF hasBD /\ ctorOk
    THEN Emit([s EXCEPT !.usingBarcodeAPI = TRUE, !.zeroFrameStreak = 0,
                        !.bdStartTs = now, !.detector = "bd", !.inits = @ + 1],
              EngineChange("barcode-detector"))
    ELSE Emit([s EXCEPT !.usingBarcodeAPI = FALSE, !.zeroFrameStreak = 0,
                        !.bdStartTs = 0, !.detector = "null", !.inits = @ + 1],
              EngineChange("wasm"))

\* initDetector: ctorOk is whether new BarcodeDetector(...) returns normally.
initDetector(s, ctorOk) ==
  IF ~props.preferWasm /\ hasBD /\ ctorOk
    THEN Emit([s EXCEPT !.usingBarcodeAPI = TRUE, !.zeroFrameStreak = 0,
                        !.bdStartTs = now, !.detector = "bd", !.inits = @ + 1],
              EngineChange("barcode-detector"))
    ELSE Emit([s EXCEPT !.usingBarcodeAPI = FALSE, !.zeroFrameStreak = 0,
                        !.bdStartTs = 0, !.detector = "null", !.inits = @ + 1],
              EngineChange("wasm"))

\* start() up to await getUserMedia(...)
start(s, caller) ==
  [s EXCEPT !.state.running = TRUE, !.starts[<<"gum", caller>>] = @ + 1]

stop(s) ==
  [cancelFrame(s) EXCEPT !.stream = StopTracks(@), !.state.running = FALSE]

\* --------------------------------------------------------------- the frame
\* drawOverlay dereferences video.value and overlay.value: it throws once the
\* component is unmounted.
drawOverlay(s) == [s EXCEPT !.draws = @ + 1]

\* a catch that reports the error and leaves the loop
frameErrorStop(s) == Emit(s, ErrorEvt)

\* catch (e) { emit('error', e) } followed by raf = requestAnimationFrame(loop)
frameError(s) == requestFrame(Emit(s, ErrorEvt))

\* the end of loop() with the detect event emitted whatever detectEnabled says
frameTailAlwaysEmits(s, results) ==
  LET kept == filterResults(results, props, s.video.attached)
      s1 == IF kept # <<>> THEN Emit(s, DetectEvt(kept)) ELSE s
  IN IF kept # <<>> /\ props.scanOnce
       THEN LET s2 == [pauseInternal(s1) EXCEPT !.stopped = TRUE]
            IN IF s2.video.attached THEN drawOverlay(s2)
               ELSE frameError(s2)
       ELSE IF s1.video.attached THEN requestFrame(drawOverlay(s1))
            ELSE frameError(s1)

\* loop() from the ROI filter to its end, given what readFrame returned.
frameTail(s, results) ==
  LET kept == filterResults(results, props, s.video.attached)
      s1 == IF kept # <<>> /\ props.detectEnabled THEN Emit(s, DetectEvt(kept)) ELSE s
  IN IF kept # <<>> /\ props.scanOnce
       THEN LET s2 == [pauseInternal(s1) EXCEPT !.stopped = TRUE]
            IN IF s2.video.attached THEN drawOverlay(s2)   \* last draw, no reschedule
               ELSE frameError(s2)
       ELSE IF s1.video.attached THEN requestFrame(drawOverlay(s1))
            ELSE frameError(s1)

\* the throttle counting one frame too many
NextFrameCountOff(fc, n) == (fc + 1) % (n + 1)

\* frameCount = (frameCount + 1) % frameInterval
NextFrameCount(fc, n) == (fc + 1) % n

\* a timeout rule that does not treat 0 as "off"
byTimeZeroCounts(s) == now - s.bdStartTs >= props.bdTimeoutMs

\* the fallback rules with strict comparisons
byTimeStrict(s) == props.bdTimeoutMs > 0 /\ now - s.bdStartTs > props.bdTimeoutMs
byStreakStrict(s) == props.bdMaxZeroFrames > 0 /\ s.zeroFrameStreak > props.bdMaxZeroFrames

byTime(s) == props.bdTimeoutMs > 0 /\ now - s.bdStartTs >= props.bdTimeoutMs
byStreak(s) == props.bdMaxZeroFrames > 0 /\ s.zeroFrameStreak >= props.bdMaxZeroFrames

maybeFallbackToWasm(s) == s.usingBarcodeAPI /\ (byTime(s) \/ byStreak(s))

\* a fallback that emits nothing
toWasmSilent(s) == [s EXCEPT !.usingBarcodeAPI = FALSE, !.detector = "null"]

\* the assignments of a fallback: usingBarcodeAPI = false, detector = null, emit
toWasm(s) ==
  Emit([s EXCEPT !.usingBarcodeAPI = FALSE, !.detector = "null"], EngineChange("wasm"))

\* The crop rectangle of the WASM path: the ROI, or the whole frame.
cropRect(p) ==
  IF p.useRoi THEN roiRect(VideoWidth, VideoHeight, p)
  ELSE [x |-> 0, y |-> 0, w |-> VideoWidth, h |-> VideoHeight]

\* ctx.getImageData throws IndexSizeError on an empty rectangle.
captureFails(p) == cropRect(p).w = 0 \/ cropRect(p).h = 0

\* readFrame's WASM path up to await readBarcodes(...)
wasmPath(s) ==
  IF ~s.video.attached \/ captureFails(props) THEN frameError(s)
  ELSE [s EXCEPT !.detects = @ + 1, !.loops["wasm"] = @ + 1,
                 !.region = cropRect(props)]

\* detector.detect(video.value): the native detector is given the video element
nativeRegion == [x |-> 0, y |-> 0, w |-> VideoWidth, h |-> VideoHeight]

\* loop() from its entry to the first await on a backend
loop(s) ==
  IF ~s.video.attached THEN s
  ELSE LET s1 == [s EXCEPT !.frameCount = NextFrameCount(@, props.frameInterval),
                           !.ticks = @ + 1]
       IN IF s1.frameCount # 0 THEN frameTail(s1, <<>>)
          ELSE IF s1.usingBarcodeAPI
            THEN [s1 EXCEPT !.passed = TRUE, !.detects = @ + 1,
                            !.loops["native"] = @ + 1, !.region = nativeRegion]
            ELSE wasmPath([s1 EXCEPT !.passed = TRUE])

\* what a backend call settles with: a rejection or an array of results
Ok(results) == [err |-> FALSE, results |-> results]
Failed == [err |-> TRUE, results |-> <<>>]
ResKind(res) == IF res.err THEN "error" ELSE IF res.results = <<>> THEN "empty" ELSE "hit"

\* zeroFrameStreak = nativeResults.length ? 0 : zeroFrameStreak + 1
NextStreak(streak, results) == IF results # <<>> THEN 0 ELSE streak + 1

\* readFrame that lets a rejection of detector.detect reach the catch of loop()
afterNativeRaising(s, res) ==
  LET s0 == [s EXCEPT !.loops["native"] = @ - 1, !.nativeRes = ResKind(res)]
  IN IF res.err THEN frameError(s0)
     ELSE LET s1 == [s0 EXCEPT !.zeroFrameStreak = NextStreak(@, res.results)]
          IN IF res.results = <<>> /\ maybeFallbackToWasm(s1)
               THEN wasmPath(toWasm(s1))
               ELSE frameTail(s1, res.results)

\* readFrame after await detector.detect(...) settled with res
afterNative(s, res) ==
  LET s0 == [s EXCEPT !.loops["native"] = @ - 1, !.nativeRes = ResKind(res)]
  IN IF res.err THEN wasmPath(toWasm(s0))
     ELSE LET s1 == [s0 EXCEPT !.zeroFrameStreak = NextStreak(@, res.results)]
          IN IF res.results = <<>> /\ maybeFallbackToWasm(s1)
               THEN wasmPath(toWasm(s1))
               ELSE frameTail(s1, res.results)

\* corners: b.cornerPoints?.map(p => ({ x: p.x + sx, y: p.y + sy }))
Translate(results, p) ==
  [i \in 1..Len(results) |->
     [results[i] EXCEPT !.corners =
        [j \in 1..Len(@) |-> Pt(@[j].x + cropRect(p).x, @[j].y + cropRect(p).y)]]]

\* readFrame after await readBarcodes(...)
afterWasm(s, res) ==
  LET s0 == [s EXCEPT !.loops["wasm"] = @ - 1]
  IN IF res.err THEN frameError(s0)
     ELSE frameTail(s0, Translate(res.results, props))

\* a resumeInternal that always takes the branch of a released camera
resumeInternalReacquire(s, ctorOk) == start(initDetector(s, ctorOk), "other")

\* resumeInternal without its final loop() call
resumeInternalNoLoop(s, ctorOk) ==
  IF props.releaseOnPause \/ s.stream = "none"
    THEN start(initDetector(s, ctorOk), "other")
    ELSE [s EXCEPT !.state.running = TRUE]

resumeInternal(s, ctorOk) ==
  IF props.releaseOnPause \/ s.stream = "none"
    THEN start(initDetector(s, ctorOk), "other")
    ELSE IF s.video.attached /\ s.video.paused
      THEN [s EXCEPT !.video.paused = FALSE, !.resumes = @ + 1]  \* await video.play()
      ELSE loop([s EXCEPT !.state.running = TRUE])

\* a resume that re-runs initDetector although it keeps the stream
afterResumePlayInit(s) ==
  loop(initDetector([s EXCEPT !.resumes = @ - 1, !.state.running = TRUE], TRUE))

\* resumeInternal after await video.play() (a rejection is swallowed)
afterResumePlay(s) ==
  loop([s EXCEPT !.resumes = @ - 1, !.state.running = TRUE])

switchCamera(s, ctorOk) ==
  LET s1 == [s EXCEPT !.state.usingBack = ~@]
      wasRunning == s1.state.running
      s2 == initDetector(stop(s1), ctorOk)
  IN IF wasRunning THEN start(s2, "other") ELSE s2

\* start() after await getUserMedia(...) resolved: srcObject = stream, play()
afterGum(s, caller) ==
  LET s0 == [s EXCEPT !.starts[<<"gum", caller>>] = @ - 1,
                      !.leaked = IF s.stream = "live" THEN @ + 1 ELSE @,
                      !.stream = "live"]
  IN IF ~s0.video.attached THEN s0
     ELSE [s0 EXCEPT !.starts = [AbortPlays(@) EXCEPT ![<<"play", caller>>] = 1],
                     !.video.paused = FALSE]

\* ------------------------------------------------------------------ inputs
PolyIn == <<Pt(3, 2), Pt(4, 2), Pt(4, 3), Pt(3, 3)>>    \* centroid inside the ROI
PolyOut == <<Pt(0, 0), Pt(1, 0), Pt(1, 1), Pt(0, 1)>>   \* centroid outside the ROI
PolyRaw == <<Pt(1, 1), Pt(2, 1), Pt(2, 2), Pt(1, 2)>>   \* in crop coordinates

\* what detector.detect(video) may settle with
NativeOutcomes ==
  {Failed, Ok(<<>>), Ok(<<Code(FALSE, <<>>)>>), Ok(<<Code(TRUE, PolyIn)>>),
   Ok(<<Code(TRUE, PolyOut)>>)}

\* what readBarcodes(img, opts) may settle with
WasmOutcomes ==
  {Failed, Ok(<<>>), Ok(<<Code(FALSE, <<>>)>>), Ok(<<Code(TRUE, PolyRaw)>>)}

Half == [num |-> 1, den |-> 2]
Golden == [num |-> 8, den |-> 5]    \* the default roiAspect 1.6

\* ----------------------------------------------------------- specification
ZeroLoops == [k \in LoopKeys |-> 0]
ZeroStarts == [k \in StartKeys |-> 0]

\* sinceDetect: loop() runs since the last one that got past the throttle
\* emptyRun: empty native results in a row since the last non-empty one or init
\* relPaused: the parent paused a running session with releaseOnPause and has
\*            not resumed it yet
\* once: "stopped" since scanOnce stopped the loop, "resumed" since the parent
\*       then set paused back to false, "no" otherwise
InitHist == [sinceDetect |-> 0, emptyRun |-> 0, relPaused |-> FALSE, once |-> "no"]

\* no call of a pure function is followed
NoCalc == [fn |-> "none"]

\* the component after setup()
Created(P, B) ==
  /\ props \in P
  /\ hasBD \in B
  /\ now = 0
  /\ lifecycle = "created"
  /\ video = [attached |-> FALSE, paused |-> TRUE]
  /\ state = [running |-> FALSE, usingBack |-> TRUE]
  /\ stream = "none"
  /\ leaked = 0
  /\ raf = FALSE
  /\ lostRaf = 0
  /\ detector = "null"
  /\ usingBarcodeAPI = FALSE
  /\ frameCount = 0
  /\ zeroFrameStreak = 0
  /\ bdStartTs = 0
  /\ loops = ZeroLoops
  /\ starts = ZeroStarts
  /\ resumes = 0
  /\ engineEvt = "none"
  /\ hist = InitHist

InitWith(P, B) == Created(P, B) /\ calc = NoCalc

RECURSIVE LastEngine(_, _)
LastEngine(out, dflt) ==
  IF out = <<>> THEN dflt
  ELSE LET e == out[Len(out)]
       IN IF e.type = "engine-change" THEN e.engine
          ELSE LastEngine(SubSeq(out, 1, Len(out) - 1), dflt)

\* The history after a handler run that ended in session s.
NextHist(s) ==
  [hist EXCEPT
     !.sinceDetect = IF s.passed THEN 0 ELSE @ + s.ticks,
     !.emptyRun = IF s.inits > 0 THEN 0
                  ELSE IF s.nativeRes = "hit" THEN 0
                  ELSE IF s.nativeRes = "empty" THEN @ + 1
                  ELSE @,
     !.once = IF s.stopped THEN "stopped" ELSE @]

\* The session is running: started, with a live camera and a frame cycle.
Running ==
  /\ state.running
  /\ stream = "live"
  /\ Pending(Cur) = 0
  /\ Chains(Cur) > 0

\* The bounds of the model: no handler run may leave more than MaxTasks
\* concurrent activities or more than MaxLeak abandoned streams.
Within(s) ==
  /\ Chains(s) + Pending(s) <= MaxTasks
  /\ s.leaked <= MaxLeak
  /\ s.zeroFrameStreak <= MaxStreak

Commit(s, h) ==
  /\ Within(s)
  /\ video' = s.video
  /\ state' = s.state
  /\ stream' = s.stream
  /\ leaked' = s.leaked
  /\ raf' = s.raf
  /\ lostRaf' = s.lostRaf
  /\ detector' = s.detector
  /\ usingBarcodeAPI' = s.usingBarcodeAPI
  /\ frameCount' = s.frameCount
  /\ zeroFrameStreak' = s.zeroFrameStreak
  /\ bdStartTs' = s.bdStartTs
  /\ loops' = s.loops
  /\ starts' = s.starts
  /\ resumes' = s.resumes
  /\ engineEvt' = LastEngine(s.out, engineEvt)
  /\ hist' = h
  /\ calc' = calc

\* onMounted: await initDetector(); await start()
MountEffects ==
  IF lifecycle = "created"
    THEN {start(initDetector([Cur EXCEPT !.video.attached = TRUE], ctorOk), "mount") :
            ctorOk \in BOOLEAN}
    ELSE {}

Mount ==
  /\ \E s \in MountEffects : Commit(s, NextHist(s))
  /\ lifecycle' = "mounted"
  /\ UNCHANGED <<props, hasBD, now>>

\* onBeforeUnmount(() => stop()); the template refs are then cleared
UnmountEffects ==
  IF lifecycle = "mounted" THEN {[stop(Cur) EXCEPT !.video.attached = FALSE]} ELSE {}

Unmount ==
  /\ \E s \in UnmountEffects :
       Commit(s, [NextHist(s) EXCEPT !.relPaused = FALSE, !.once = "no"])
  /\ lifecycle' = "unmounted"
  /\ UNCHANGED <<props, hasBD, now>>

\* getUserMedia resolves
GumResolveEffects ==
  {afterGum(Cur, c) : c \in {c \in Callers : starts[<<"gum", c>>] > 0}}

GumResolve ==
  /\ \E s \in GumResolveEffects : Commit(s, NextHist(s))
  /\ UNCHANGED <<props, hasBD, now, lifecycle>>

\* A rejection inside start() reaches emit('error') only through onMounted's catch.
startFailed(s, pc, c) ==
  LET s0 == [s EXCEPT !.starts[<<pc, c>>] = @ - 1]
  IN IF c = "mount" THEN Emit(s0, ErrorEvt) ELSE s0

\* getUserMedia rejects
GumRejectEffects ==
  {startFailed(Cur, "gum", c) : c \in {c \in Callers : starts[<<"gum", c>>] > 0}}

GumReject ==
  /\ \E s \in GumRejectEffects : Commit(s, NextHist(s))
  /\ UNCHANGED <<props, hasBD, now, lifecycle>>

\* video.play() of start() resolves: loop()
PlayResolveEffects ==
  {loop([Cur EXCEPT !.starts[<<"play", c>>] = @ - 1]) :
     c \in {c \in Callers : starts[<<"play", c>>] > 0}}

PlayResolve ==
  /\ \E s \in PlayResolveEffects : Commit(s, NextHist(s))
  /\ UNCHANGED <<props, hasBD, now, lifecycle>>

\* video.play() of start() rejects
PlayRejectEffects ==
  {startFailed(Cur, k[1], k[2]) :
     k \in {k \in StartKeys : k[1] # "gum" /\ starts[k] > 0}}

PlayReject ==
  /\ \E s \in PlayRejectEffects : Commit(s, NextHist(s))
  /\ UNCHANGED <<props, hasBD, now, lifecycle>>

\* an animation-frame callback runs loop()
TickEffects ==
  (IF raf THEN {loop([Cur EXCEPT !.raf = FALSE])} ELSE {})
  \cup (IF lostRaf > 0 THEN {loop([Cur EXCEPT !.lostRaf = @ - 1])} ELSE {})

Tick ==
  /\ \E s \in TickEffects : Commit(s, NextHist(s))
  /\ UNCHANGED <<props, hasBD, now, lifecycle>>

\* detector.detect(video) settles
NativeEffects ==
  IF loops["native"] > 0 THEN {afterNative(Cur, res) : res \in NativeOutcomes} ELSE {}

NativeDone ==
  /\ \E s \in NativeEffects : Commit(s, NextHist(s))
  /\ UNCHANGED <<props, hasBD, now, lifecycle>>

\* readBarcodes(img, opts) settles
WasmEffects ==
  IF loops["wasm"] > 0 THEN {afterWasm(Cur, res) : res \in WasmOutcomes} ELSE {}

WasmDone ==
  /\ \E s \in WasmEffects : Commit(s, NextHist(s))
  /\ UNCHANGED <<props, hasBD, now, lifecycle>>

\* watch(() => props.paused): the parent sets paused to true
PauseEffects ==
  IF lifecycle = "mounted" /\ ~props.paused THEN {pauseInternal(Cur)} ELSE {}

Pause ==
  /\ \E s \in PauseEffects :
       Commit(s, [NextHist(s) EXCEPT !.relPaused = props.releaseOnPause /\ Running])
  /\ props' = [props EXCEPT !.paused = TRUE]
  /\ UNCHANGED <<hasBD, now, lifecycle>>

\* watch(() => props.paused): the parent sets paused to false
ResumeEffects ==
  IF lifecycle = "mounted" /\ props.paused
    THEN {resumeInternal(Cur, ctorOk) : ctorOk \in BOOLEAN}
    ELSE {}

Resume ==
  /\ \E s \in ResumeEffects :
       Commit(s, [NextHist(s) EXCEPT
                    !.relPaused = FALSE,
                    !.once = IF @ = "stopped" THEN "resumed" ELSE @])
  /\ props' = [props EXCEPT !.paused = FALSE]
  /\ UNCHANGED <<hasBD, now, lifecycle>>

\* await video.play() of resumeInternal settles
ResumePlayEffects == IF resumes > 0 THEN {afterResumePlay(Cur)} ELSE {}

ResumePlayDone ==
  /\ \E s \in ResumePlayEffects : Commit(s, NextHist(s))
  /\ UNCHANGED <<props, hasBD, now, lifecycle>>

\* the switchCamera control of the slot
SwitchEffects ==
  IF lifecycle = "mounted" THEN {switchCamera(Cur, ctorOk) : ctorOk \in BOOLEAN} ELSE {}

SwitchCamera ==
  /\ \E s \in SwitchEffects : Commit(s, NextHist(s))
  /\ UNCHANGED <<props, hasBD, now, lifecycle>>

\* Time passes.  The clock is read only to time the native engine out, and
\* bdStartTs is read afresh from it whenever the native engine is entered, so
\* time that passes with no timeout configured, under the WASM engine or after
\* the timeout has expired is never observed.
Advance ==
  /\ now < MaxNow
  /\ props.bdTimeoutMs > 0
  /\ usingBarcodeAPI
  /\ now - bdStartTs < props.bdTimeoutMs
  /\ now' = now + 1
  /\ UNCHANGED <<props, hasBD, lifecycle, video, state, stream, leaked, raf, lostRaf,
                 detector, usingBarcodeAPI, frameCount, zeroFrameStreak, bdStartTs,
                 loops, starts, resumes, engineEvt, hist, calc>>

Next ==
  \/ Mount \/ Unmount \/ GumResolve \/ GumReject \/ PlayResolve \/ PlayReject
  \/ Tick \/ NativeDone \/ WasmDone \/ Pause \/ Resume \/ ResumePlayDone
  \/ SwitchCamera \/ Advance

BaseProps ==
  [paused |-> FALSE, releaseOnPause |-> FALSE, detectEnabled |-> TRUE,
   scanOnce |-> FALSE, preferWasm |-> FALSE, frameInterval |-> 1,
   bdTimeoutMs |-> TimeoutMs, bdMaxZeroFrames |-> MaxZeroFrames,
   filterInsideRoi |-> FALSE, useRoi |-> TRUE, roiShape |-> "square",
   roiAspect |-> Golden, roiSizeRatio |-> Half, roiPadding |-> 0]

Init == InitWith({BaseProps}, {TRUE})

Spec == Init /\ [][Next]_vars

\* The fallback rules switched on and off, with and without a native detector.
EngineProps ==
  {[BaseProps EXCEPT !.bdTimeoutMs = t, !.bdMaxZeroFrames = z] :
     t \in {0, TimeoutMs}, z \in {0, MaxZeroFrames}}

InitEngine == InitWith(EngineProps, BOOLEAN)

SpecEngine == InitEngine /\ [][Next]_vars

\* Every frame processed, and one frame in SkipInterval.
ThrottleProps == {[BaseProps EXCEPT !.frameInterval = n] : n \in {1, SkipInterval}}

InitThrottle == InitWith(ThrottleProps, {TRUE})

SpecThrottle == InitThrottle /\ [][Next]_vars

\* The camera kept and released on pause.
ReleaseProps == {[BaseProps EXCEPT !.releaseOnPause = r] : r \in BOOLEAN}

InitRelease == InitWith(ReleaseProps, {TRUE})

SpecRelease == InitRelease /\ [][Next]_vars

\* WASM forced and not forced, with and without a native detector.
PreferProps == {[BaseProps EXCEPT !.preferWasm = w] : w \in BOOLEAN}

InitPrefer == InitWith(PreferProps, BOOLEAN)

SpecPrefer == InitPrefer /\ [][Next]_vars

\* The component created with the paused prop already true.
PausedProps == {[BaseProps EXCEPT !.paused = TRUE]}

InitPaused == InitWith(PausedProps, {TRUE})

SpecPaused == InitPaused /\ [][Next]_vars

\* The detect event enabled and disabled, with the ROI filter on.
DetectProps ==
  {[BaseProps EXCEPT !.detectEnabled = d, !.filterInsideRoi = TRUE] : d \in BOOLEAN}

InitDetect == InitWith(DetectProps, {TRUE})

SpecDetect == InitDetect /\ [][Next]_vars

\* A fallback rule set to 0: the timeout, the streak, or both.  With no timeout
\* configured the clock still moves (Elapse), so that a rule that wrongly looked
\* at it would show.
ZeroProps ==
  {[BaseProps EXCEPT !.bdTimeoutMs = t, !.bdMaxZeroFrames = z] :
     t \in {0, TimeoutMs}, z \in {0, MaxZeroFrames}} \ {BaseProps}

InitZero == InitWith(ZeroProps, {TRUE})

Elapse ==
  /\ now < MaxNow
  /\ props.bdTimeoutMs = 0
  /\ now' = now + 1
  /\ UNCHANGED <<props, hasBD, lifecycle, video, state, stream, leaked, raf, lostRaf,
                 detector, usingBarcodeAPI, frameCount, zeroFrameStreak, bdStartTs,
                 loops, starts, resumes, engineEvt, hist, calc>>

NextZero == Next \/ Elapse

SpecZero == InitZero /\ [][NextZero]_vars

\* scanOnce with the ROI filter, which drops some results and keeps others.
OnceProps == {[BaseProps EXCEPT !.scanOnce = TRUE, !.filterInsideRoi = TRUE]}

InitOnce == InitWith(OnceProps, {TRUE})

SpecOnce == InitOnce /\ [][Next]_vars

\* Detect events for codes inside the ROI only.
FilterProps == {[BaseProps EXCEPT !.filterInsideRoi = TRUE]}

InitFilter == InitWith(FilterProps, {TRUE})

SpecFilter == InitFilter /\ [][Next]_vars

\* ------------------------------------------------------- calls of roiRect
\* the fields of setup() other than props
session == <<hasBD, now, lifecycle, video, state, stream, leaked, raf, lostRaf,
             detector, usingBarcodeAPI, frameCount, zeroFrameStreak, bdStartTs,
             loops, starts, resumes, engineEvt, hist>>

Ratio(n, d) == [num |-> n, den |-> d]

\* roiAspect: below the clamp 0.01, below 1, 1, the default, above it
Aspects == {Ratio(1, 200), Ratio(1, 2), Ratio(1, 1), Golden, Ratio(3, 1)}

RoiProps ==
  {[BaseProps EXCEPT !.roiShape = sh, !.roiAspect = a,
                     !.roiSizeRatio = Ratio(k, RatioDen), !.roiPadding = pd] :
     sh \in {"square", "rect"}, a \in Aspects, k \in 1..RatioDen, pd \in (-1)..MaxPad}

NoRect == [x |-> 0, y |-> 0, w |-> 0, h |-> 0]

\* a canvas of each size; `first` is the rectangle for the padding drawn here
InitRoi ==
  /\ Created(RoiProps, {TRUE})
  /\ calc \in {[fn |-> "roiRect", cw |-> w, ch |-> h, done |-> FALSE,
                 rect |-> NoRect, first |-> NoRect] : w \in 1..MaxSide, h \in 1..MaxSide}

\* roiRect(cvs) with the props as they are
ComputeRoi ==
  /\ calc.fn = "roiRect"
  /\ ~calc.done
  /\ calc' = [calc EXCEPT !.done = TRUE,
                          !.rect = roiRect(calc.cw, calc.ch, props),
                          !.first = roiRect(calc.cw, calc.ch, props)]
  /\ UNCHANGED <<props, session>>

\* the parent raises roiPadding by one and roiRect(cvs) runs again
MorePadding ==
  /\ calc.fn = "roiRect"
  /\ calc.done
  /\ props.roiPadding < MaxPad
  /\ props' = [props EXCEPT !.roiPadding = @ + 1]
  /\ calc' = [calc EXCEPT !.rect = roiRect(calc.cw, calc.ch, props')]
  /\ UNCHANGED session

NextRoi == ComputeRoi \/ MorePadding

SpecRoi == InitRoi /\ [][NextRoi]_vars

\* ------------------------------------------------------ the corner brackets
\* Lengths along an edge are kept doubled, so that w/2 and h/2 stay integers.
clamp(v, lo, hi) == Max2(lo, Min2(hi, v))

Seg(a, b) == [from |-> a, to |-> b]

\* The straight segments drawCornerBorder strokes, per corner: `hor` on the top
\* or bottom edge, `ver` on the left or right edge.
drawCornerBorder(x, y, w, h, r, len) ==
  LET L == Max2(2, Min2(len, Floor(Min2(w, h), 2)))
      rr == Max2(0, Min2(2 * r, Min2(w, h)))       \* twice the radius used
      X == 2 * x
      Y == 2 * y
      W == 2 * w
      H == 2 * h
      LL == 2 * L
      left == IF rr > 0 THEN Seg(X + rr, clamp(X + rr + LL, X, X + W))
              ELSE Seg(X, clamp(X + LL, X, X + W))
      right == IF rr > 0 THEN Seg(clamp(X + W - rr - LL, X, X + W), X + W - rr)
               ELSE Seg(clamp(X + W - LL, X, X + W), X + W)
      upper == IF rr > 0 THEN Seg(Y + rr, clamp(Y + rr + LL, Y, Y + H))
               ELSE Seg(Y, clamp(Y + LL, Y, Y + H))
      lower == IF rr > 0 THEN Seg(clamp(Y + H - rr - LL, Y, Y + H), Y + H - rr)
               ELSE Seg(clamp(Y + H - LL, Y, Y + H), Y + H)
  IN [tl |-> [hor |-> left, ver |-> upper],
      tr |-> [hor |-> right, ver |-> upper],
      br |-> [hor |-> right, ver |-> lower],
      bl |-> [hor |-> left, ver |-> lower]]

NoSeg == Seg(0, 0)
NoBrackets ==
  [c \in {"tl", "tr", "br", "bl"} |-> [hor |-> NoSeg, ver |-> NoSeg]]

\* an ROI of each size at the origin and off it, with each radius and length
InitBorder ==
  /\ Created({BaseProps}, {TRUE})
  /\ calc \in {[fn |-> "drawCornerBorder", x |-> x, y |-> y, w |-> w, h |-> h,
                 r |-> r, len |-> len, done |-> FALSE, segs |-> NoBrackets] :
                x \in 0..1, y \in 0..1, w \in 0..MaxEdge, h \in 0..MaxEdge,
                r \in 0..MaxRadius, len \in 0..MaxLength}

\* drawCornerBorder(ctx, x, y, w, h, props.roiRadius, color, lw, props.roiCornerLength)
DrawBorder ==
  /\ calc.fn = "drawCornerBorder"
  /\ ~calc.done
  /\ calc' = [calc EXCEPT
                !.done = TRUE,
                !.segs = drawCornerBorder(calc.x, calc.y, calc.w, calc.h, calc.r, calc.len)]
  /\ UNCHANGED <<props, session>>

NextBorder == DrawBorder

SpecBorder == InitBorder /\ [][NextBorder]_vars

\* ----------------------------------------------- the containment test
\* corner points on the grid of the frame and just beyond it
GridPts == {Pt(x, y) : x \in 0..MaxSide, y \in 0..MaxSide}

\* polygons of one and of two corners: their centroids are the grid points
\* and the points half way between two of them
GridPolys == {<<p>> : p \in GridPts} \cup {<<p, q>> : p \in GridPts, q \in GridPts}

InsideProps == {[BaseProps EXCEPT !.filterInsideRoi = TRUE, !.roiPadding = pd] : pd \in 0..1}

InitInside ==
  /\ Created(InsideProps, {TRUE})
  /\ calc \in {[fn |-> "inside", pts |-> poly, done |-> FALSE, accepted |-> FALSE] :
                 poly \in GridPolys}

\* const r = roiRect(overlay.value); const c = centroid(corners); inside = ...
TestInside ==
  /\ calc.fn = "inside"
  /\ ~calc.done
  /\ calc' = [calc EXCEPT
                !.done = TRUE,
                !.accepted = inside(centroid(calc.pts),
                                    roiRect(VideoWidth, VideoHeight, props))]
  /\ UNCHANGED <<props, session>>

NextInside == TestInside

SpecInside == InitInside /\ [][NextInside]_vars

\* ------------------------------------------------------ calls of emaCorners
CoordPts == {Pt(x, y) : x \in 0..MaxCoord, y \in 0..MaxCoord}

\* the polygons a backend reports, of one and of two corners
CoordPolys ==
  {Poly(<<p>>) : p \in CoordPts} \cup {Poly(<<p, q>>) : p \in CoordPts, q \in CoordPts}

\* smoothCorners is null or a polygon; corners is a polygon
InitSmooth ==
  /\ Created({BaseProps}, {TRUE})
  /\ calc \in {[fn |-> "emaCorners", prev |-> pv, next |-> nx, runs |-> 0,
                 out |-> Absent] : pv \in {Absent} \cup CoordPolys, nx \in CoordPolys}

\* smoothCorners = emaCorners(smoothCorners, corners)
Smooth ==
  /\ calc.fn = "emaCorners"
  /\ calc.runs = 0
  /\ calc' = [calc EXCEPT !.runs = 1, !.out = emaCorners(calc.prev, calc.next)]
  /\ UNCHANGED <<props, session>>

\* the next frame reports the same corners: the result is now the memory
SmoothAgain ==
  /\ calc.fn = "emaCorners"
  /\ calc.runs > 0
  /\ calc.runs < MaxRuns
  /\ calc' = [calc EXCEPT !.runs = @ + 1, !.prev = calc.out,
                          !.out = emaCorners(calc.out, calc.next)]
  /\ UNCHANGED <<props, session>>

NextSmooth == Smooth \/ SmoothAgain

SpecSmooth == InitSmooth /\ [][NextSmooth]_vars

TypeOK ==
  /\ stream \in {"none", "live", "stopped"}
  /\ frameCount \in 0..(props.frameInterval - 1)
  /\ zeroFrameStreak \in 0..MaxStreak
  /\ Chains(Cur) + Pending(Cur) <= MaxTasks

\* ------------------------------------------------------------- properties
HasEvent(out, type) == \E i \in 1..Len(out) : out[i].type = type
CountEvents(out, type) == Cardinality({i \in 1..Len(out) : out[i].type = type})

\* the sessions in which a detection call that is in flight may end
DoneEffects == NativeEffects \cup WasmEffects

\* C1: after a pause that happens while a frame cycle is suspended in its
\* detection call, whatever that call settles with, its completion emits no
\* detect event and requests no animation frame.
C1_ResultAfterPauseDiscarded ==
  [][(Pause /\ InFlight(Cur) > 0)
       => (\A s \in DoneEffects : ~HasEvent(s.out, "detect") /\ ~s.sched)']_vars

\* C2: at most one frame cycle is scheduled or awaiting its detection call.
C2_SingleFrameCycle == Chains(Cur) <= 1

\* the native engine is active and its timeout has expired
TimedOut ==
  /\ props.bdTimeoutMs > 0
  /\ usingBarcodeAPI
  /\ now - bdStartTs >= props.bdTimeoutMs

\* C3 as stated: once the timeout has expired under the native engine, a
\* processed frame leaves the engine on WASM whatever the native call returned.
C3_TimeoutWhateverReturned ==
  TimedOut => \A s \in NativeEffects : ~s.usingBarcodeAPI

\* C3: once the timeout has expired under the native engine, a processed frame
\* leaves the engine on WASM, whatever the streak, if the native call returned
\* an empty result or failed, and leaves it native if the call returned codes.
C3_TimeoutOnEmptyOrError ==
  TimedOut => \A s \in NativeEffects : s.usingBarcodeAPI = (s.nativeRes = "hit")

\* a frame is awaiting the native call after the timeout expired, before any
\* empty result, and an empty result takes it to WASM though the streak is short
C3_Witness ==
  /\ TimedOut
  /\ zeroFrameStreak = 0
  /\ props.bdMaxZeroFrames > 1
  /\ \E s \in NativeEffects :
       Within(s) /\ s.nativeRes = "empty" /\ ~s.usingBarcodeAPI /\ s.loops["wasm"] = 1

\* C4: with bdMaxZeroFrames = N > 0 and the timeout not expired, a native call
\* that returns takes the engine to WASM exactly when its result is the N-th
\* empty one in a row, and a non-empty result sets the streak to 0.
C4_StreakFallback ==
  (usingBarcodeAPI /\ props.bdMaxZeroFrames > 0 /\ ~TimedOut)
    => \A s \in NativeEffects :
         /\ s.nativeRes = "hit" => s.zeroFrameStreak = 0 /\ s.usingBarcodeAPI
         /\ s.nativeRes = "empty" =>
              (s.usingBarcodeAPI = (hist.emptyRun + 1 # props.bdMaxZeroFrames))

\* with no timeout configured the engine is on WASM after N empty native
\* results in a row
C4_Witness ==
  /\ props.bdTimeoutMs = 0
  /\ props.bdMaxZeroFrames > 1
  /\ hist.emptyRun = props.bdMaxZeroFrames
  /\ ~usingBarcodeAPI
  /\ engineEvt = "wasm"

\* the resume re-runs initDetector: the stream was released or never acquired
Reacquires == props.releaseOnPause \/ stream = "none"

\* C5: the engine goes from WASM to native only in onMounted, in switchCamera
\* and in a resume that reacquires the camera, the callers of initDetector.
C5_NativeOnlyByInit ==
  [][(~usingBarcodeAPI /\ usingBarcodeAPI')
       => (Mount \/ SwitchCamera \/ (Resume /\ Reacquires))]_vars

\* the engine fell back to WASM after an empty native result, and a resume
\* that keeps the stream is under way
C5_Witness ==
  /\ hasBD
  /\ ~usingBarcodeAPI
  /\ zeroFrameStreak > 0
  /\ resumes > 0

Engine(native) == IF native THEN "barcode-detector" ELSE "wasm"

\* the handler runs that are possible in the current state
HandlerRuns ==
  MountEffects \cup UnmountEffects \cup GumResolveEffects \cup GumRejectEffects
  \cup PlayResolveEffects \cup PlayRejectEffects \cup TickEffects \cup NativeEffects
  \cup WasmEffects \cup PauseEffects \cup ResumeEffects \cup ResumePlayEffects
  \cup SwitchEffects

\* C6: once the engine is selected the last engine-change event names the
\* active engine, and a handler run that selects or changes the engine emits
\* exactly one engine-change event, which names the new engine.
C6_EngineChangeEvent ==
  /\ lifecycle # "created" => engineEvt = Engine(usingBarcodeAPI)
  /\ \A s \in HandlerRuns :
       (s.inits > 0 \/ s.usingBarcodeAPI # usingBarcodeAPI)
         => /\ CountEvents(s.out, "engine-change") = 1
            /\ LastEngine(s.out, "none") = Engine(s.usingBarcodeAPI)

\* the native engine was selected and has fallen back after an empty result
C6_Witness ==
  /\ engineEvt = "wasm"
  /\ ~usingBarcodeAPI
  /\ zeroFrameStreak > 0
  /\ InFlight(Cur) > 0

\* the runs of loop() that are possible in the current state
LoopRuns ==
  {s \in TickEffects \cup PlayResolveEffects \cup ResumePlayEffects \cup ResumeEffects :
     s.ticks = 1}

\* C7: with frameInterval = N a run of loop() calls a backend exactly when the
\* N - 1 runs before it did not; a run that does not draws the overlay once,
\* emits no detect event and leaves the streak and the engine as they are.
C7_EveryNthFrame ==
  \A s \in LoopRuns :
    /\ s.passed = (hist.sinceDetect = props.frameInterval - 1)
    /\ s.passed => s.detects = 1
    /\ ~s.passed =>
         /\ s.detects = 0
         /\ s.draws = 1
         /\ ~HasEvent(s.out, "detect")
         /\ s.zeroFrameStreak = zeroFrameStreak
         /\ s.usingBarcodeAPI = usingBarcodeAPI

\* a frame was processed (its native call returned nothing) and the
\* SkipInterval - 1 ticks after it were skipped
C7_Witness ==
  /\ props.frameInterval = SkipInterval
  /\ hist.sinceDetect = SkipInterval - 1
  /\ zeroFrameStreak > 0
  /\ raf

\* C8: with releaseOnPause, pausing a running session stops the tracks and
\* drops the stream, which stays dropped until the resume; that resume runs
\* initDetector and start() and neither runs loop() nor requests a frame, and
\* no start() or resume reaches loop() while there is no stream.
C8_ReleaseAndReacquire ==
  /\ (props.releaseOnPause /\ Running)
       => \A s \in PauseEffects :
            s.stream = "none" /\ s.leaked = leaked /\ ~s.state.running
  /\ hist.relPaused => (props.paused /\ stream = "none")
  /\ hist.relPaused
       => \A s \in ResumeEffects :
            /\ s.inits = 1
            /\ s.zeroFrameStreak = 0
            /\ s.bdStartTs = (IF s.usingBarcodeAPI THEN now ELSE 0)
            /\ s.starts[<<"gum", "other">>] = starts[<<"gum", "other">>] + 1
            /\ s.stream = "none"
            /\ s.ticks = 0
            /\ ~s.sched
  /\ stream = "none" => (PlayResolveEffects = {} /\ ResumePlayEffects = {})

\* a running session was paused with releaseOnPause and is still paused
C8_Witness ==
  /\ hist.relPaused
  /\ stream = "none"
  /\ ~state.running
  /\ now > 0

\* C9: once scanOnce has stopped the loop of a mounted component, no frame
\* cycle is scheduled or in flight and state.running is false, until the
\* parent resumes.
C9_StoppedStaysStopped ==
  (lifecycle = "mounted" /\ hist.once = "stopped")
    => (Chains(Cur) = 0 /\ ~state.running)

\* C10 as stated: in a session stopped by scanOnce, setting paused back to
\* false starts no frame cycle, no start() and no resume of the media.
C10_ToggleDoesNotResume ==
  hist.once = "stopped"
    => \A s \in ResumeEffects :
         s.ticks = 0 /\ s.resumes = resumes /\ s.starts = starts /\ ~s.state.running

\* C10: in a session stopped by scanOnce, setting paused to true starts
\* nothing, and setting it back to false resumes: it runs initDetector and
\* start() when the stream is released or absent, else it resumes the media
\* and runs loop(), at once or when play() settles.
C10_ToggleResumes ==
  /\ hist.once = "stopped"
       => /\ \A s \in PauseEffects :
               ~s.state.running /\ ~s.sched /\ s.ticks = 0 /\ Pending(s) <= Pending(Cur)
          /\ \A s \in ResumeEffects :
               IF Reacquires
                 THEN /\ s.inits = 1
                      /\ s.state.running
                      /\ s.starts[<<"gum", "other">>] = starts[<<"gum", "other">>] + 1
                 ELSE IF video.paused
                   THEN s.resumes = resumes + 1
                   ELSE s.ticks = 1 /\ s.state.running
  /\ (hist.once = "resumed" /\ lifecycle = "mounted")
       => \A s \in ResumePlayEffects : s.ticks = 1 /\ s.state.running

\* scanOnce stopped the loop, the parent toggled paused, and a frame is again
\* awaiting its detection call
C10_Witness ==
  /\ hist.once = "resumed"
  /\ ~props.paused
  /\ state.running
  /\ InFlight(Cur) > 0

\* the first result has a polygon and its centroid lies in the ROI
TopInside(results) ==
  /\ results # <<>>
  /\ results[1].hasCorners
  /\ inside(centroid(results[1].corners), roiRect(VideoWidth, VideoHeight, props))

\* C11: with filterInsideRoi a frame emits detect only if its first result has
\* a polygon whose centroid lies in the ROI; a frame whose first result has no
\* polygon, or one with its centroid outside, emits nothing.
C11_EmitOnlyInsideRoi ==
  (props.filterInsideRoi /\ video.attached)
    => /\ loops["native"] > 0
            => \A res \in NativeOutcomes :
                 HasEvent(afterNative(Cur, res).out, "detect") => TopInside(res.results)
       /\ loops["wasm"] > 0
            => \A res \in WasmOutcomes :
                 HasEvent(afterWasm(Cur, res).out, "detect")
                   => TopInside(Translate(res.results, props))

\* roiRect has returned for the frame and the props of the state
RoiDone == calc.fn = "roiRect" /\ calc.done

\* C13: with a padding >= 0 the rectangle roiRect returns has width and
\* height >= 0 and lies inside the frame.
C13_RoiInsideFrame ==
  (RoiDone /\ props.roiPadding >= 0)
    => /\ calc.rect.w >= 0 /\ calc.rect.h >= 0
       /\ calc.rect.x >= 0 /\ calc.rect.y >= 0
       /\ calc.rect.x + calc.rect.w <= calc.cw
       /\ calc.rect.y + calc.rect.h <= calc.ch

\* roiAspect compared with 1
Wide == props.roiAspect.num >= props.roiAspect.den
Even == props.roiAspect.num = props.roiAspect.den

\* C14: roiRect returns height <= width for a rect of aspect >= 1, width <=
\* height for a rect of aspect < 1, and width = height for aspect 1 and for a
\* square.
C14_RoiOrientation ==
  RoiDone
    => /\ (props.roiShape = "rect" /\ Wide) => calc.rect.h <= calc.rect.w
       /\ (props.roiShape = "rect" /\ ~Wide) => calc.rect.w <= calc.rect.h
       /\ (props.roiShape = "square" \/ Even) => calc.rect.w = calc.rect.h

\* a rect of the default aspect that is wider than high, and one of aspect
\* 1/2 that is higher than wide, each with an area
C14_Witness ==
  /\ RoiDone
  /\ props.roiShape = "rect"
  /\ calc.rect.w > 0 /\ calc.rect.h > 0
  /\ \/ props.roiAspect = Golden /\ calc.rect.h < calc.rect.w
     \/ props.roiAspect = Ratio(1, 2) /\ calc.rect.w < calc.rect.h

\* C15: the width and the height for a padding are no larger than those for
\* any smaller padding, frame and other props equal, and never below 0.
C15_PaddingMonotone ==
  RoiDone
    => /\ calc.rect.w <= calc.first.w /\ calc.rect.h <= calc.first.h
       /\ calc.rect.w >= 0 /\ calc.rect.h >= 0

\* the padding was raised until the width, positive at first, stays at 0
C15_Witness ==
  /\ RoiDone
  /\ calc.first.w > 2
  /\ calc.rect.w = 0
  /\ 2 * props.roiPadding > calc.first.w + 2

\* the ROI of the frame, and n times the mean of the coordinates of calc.pts
Roi == roiRect(VideoWidth, VideoHeight, props)
MeanX(n) == (n * SumX(calc.pts)) \div Len(calc.pts)
MeanY(n) == (n * SumY(calc.pts)) \div Len(calc.pts)

\* C12: a centroid c is accepted exactly when roi.x <= c.x <= roi.x + roi.w
\* and roi.y <= c.y <= roi.y + roi.h, the edges included.  The centroids are
\* whole or half numbers, compared here doubled.
C12_InclusiveBounds ==
  (calc.fn = "inside" /\ calc.done)
    => (calc.accepted
          = (/\ 2 * Roi.x <= MeanX(2) /\ MeanX(2) <= 2 * (Roi.x + Roi.w)
             /\ 2 * Roi.y <= MeanY(2) /\ MeanY(2) <= 2 * (Roi.y + Roi.h)))

\* a centroid on the far corner of the ROI was accepted
C12_Witness ==
  /\ calc.fn = "inside"
  /\ calc.done
  /\ calc.accepted
  /\ MeanX(2) = 2 * (Roi.x + Roi.w)
  /\ MeanY(2) = 2 * (Roi.y + Roi.h)
  /\ Len(calc.pts) = 2

\* emaCorners has returned calc.out for calc.prev and calc.next
Smoothed == calc.fn = "emaCorners" /\ calc.runs > 0

\* the two polygons have the same number of corners
SameCount == calc.prev.present /\ Len(calc.prev.pts) = Len(calc.next.pts)

\* comparisons of the fractions a/da and b/db
Less(a, da, b, db) == a * db < b * da
Same(a, da, b, db) == a * db = b * da

\* C16: when the previous polygon is absent or has another number of corners
\* the result is the new polygon, corner for corner.
C16_CopyOnMismatch ==
  (Smoothed /\ ~SameCount)
    => /\ Len(calc.out.pts) = Len(calc.next.pts)
       /\ \A i \in 1..Len(calc.next.pts) :
            /\ Same(calc.out.pts[i].x, calc.out.den, calc.next.pts[i].x, calc.next.den)
            /\ Same(calc.out.pts[i].y, calc.out.den, calc.next.pts[i].y, calc.next.den)

\* a memory of one corner met a polygon of two corners, the first of them
\* elsewhere, and the result is that polygon
C16_Witness ==
  /\ Smoothed
  /\ calc.prev.present
  /\ Len(calc.prev.pts) = 1
  /\ Len(calc.next.pts) = 2
  /\ calc.prev.pts[1] # calc.next.pts[1]
  /\ calc.out.pts = calc.next.pts

\* r/dr = p/dp + (AlphaNum/AlphaDen) * (q/dq - p/dp)
IsBlend(r, dr, p, dp, q, dq) ==
  AlphaDen * r * dp * dq = dr * (AlphaDen * p * dq + AlphaNum * (q * dp - p * dq))

\* r/dr lies strictly between p/dp and q/dq
Between(r, dr, p, dp, q, dq) ==
  \/ Less(p, dp, r, dr) /\ Less(r, dr, q, dq)
  \/ Less(q, dq, r, dr) /\ Less(r, dr, p, dp)

BetweenOrSame(r, dr, p, dp, q, dq) ==
  IF Same(p, dp, q, dq) THEN Same(r, dr, p, dp) ELSE Between(r, dr, p, dp, q, dq)

FrameRuns ==
  TickEffects \cup PlayResolveEffects \cup ResumePlayEffects \cup ResumeEffects
  \cup NativeEffects \cup WasmEffects

\* C18: a run of loop() emits at most one error event and requests the next
\* frame whenever it emits one; a failed WASM decode is such a run; a run that
\* finds no video element emits nothing and requests nothing.
C18_FrameErrorReschedules ==
  /\ \A s \in FrameRuns :
       /\ CountEvents(s.out, "error") <= 1
       /\ HasEvent(s.out, "error") => s.sched /\ s.raf
  /\ loops["wasm"] > 0
       => LET s == afterWasm(Cur, Failed)
          IN CountEvents(s.out, "error") = 1 /\ s.sched
  /\ ~video.attached => \A s \in TickEffects : s.out = <<>> /\ ~s.sched

\* a WASM decode is in flight in a mounted component, and its failure ends
\* in one error event and a frame request
C18_Witness ==
  /\ video.attached
  /\ loops["wasm"] > 0
  /\ ~raf
  /\ \E s \in WasmEffects :
       Within(s) /\ CountEvents(s.out, "error") = 1 /\ s.raf /\ s.loops["wasm"] = 0

\* C19: in a mounted component a rejected native detect call emits no error:
\* the engine becomes WASM, one engine-change event names wasm, and the frame
\* goes to the WASM decoder; that decode emits an error exactly when it fails.
C19_NativeErrorDemotes ==
  video.attached
    => /\ loops["native"] > 0
            => LET s == afterNative(Cur, Failed)
               IN /\ ~HasEvent(s.out, "error")
                  /\ ~s.usingBarcodeAPI
                  /\ CountEvents(s.out, "engine-change") = 1
                  /\ LastEngine(s.out, "none") = "wasm"
                  /\ s.loops["wasm"] = loops["wasm"] + 1
                  /\ s.detects = 1
       /\ \A res \in WasmOutcomes :
            loops["wasm"] > 0 => (HasEvent(afterWasm(Cur, res).out, "error") = res.err)

\* the native engine, selected after the clock moved, is off with no empty
\* result counted, and the WASM decoder holds the frame: the detect call failed
C19_Witness ==
  /\ video.attached
  /\ ~usingBarcodeAPI
  /\ bdStartTs > 0
  /\ zeroFrameStreak = 0
  /\ engineEvt = "wasm"
  /\ loops["wasm"] > 0

\* C20: switchCamera flips the facing, leaves no frame cycle alive, stops the
\* tracks of the stream and runs initDetector once; it calls start() exactly
\* when the session was running, and a session that was not stays not running.
C20_SwitchStopsAndRestarts ==
  \A s \in SwitchEffects :
    /\ s.state.usingBack = ~state.usingBack
    /\ Chains(s) = 0
    /\ s.stream = StopTracks(stream)
    /\ s.inits = 1
    /\ s.state.running = state.running
    /\ Starting(s) = Starting(Cur) + (IF state.running THEN 1 ELSE 0)

\* the handler runs that call initDetector
InitRuns == {s \in MountEffects \cup ResumeEffects \cup SwitchEffects : s.inits > 0}

\* C21: initDetector selects the native engine exactly when preferWasm is
\* false, BarcodeDetector exists and its constructor returns; otherwise it
\* selects WASM; either way zeroFrameStreak is 0 afterwards, and the
\* engine-change event names the engine selected.
C21_InitSelectsEngine ==
  /\ \A ctorOk \in BOOLEAN :
       LET s == initDetector(Cur, ctorOk)
       IN /\ s.usingBarcodeAPI = (~props.preferWasm /\ hasBD /\ ctorOk)
          /\ s.detector = (IF s.usingBarcodeAPI THEN "bd" ELSE "null")
          /\ s.zeroFrameStreak = 0
  /\ \A s \in InitRuns :
       /\ s.inits = 1
       /\ s.zeroFrameStreak = 0
       /\ s.usingBarcodeAPI => ~props.preferWasm /\ hasBD
       /\ LastEngine(s.out, "none") = Engine(s.usingBarcodeAPI)

\* empty native results have been counted, and a handler re-runs
\* initDetector: one outcome selects the native engine, one WASM, streak 0
C21_Witness ==
  /\ zeroFrameStreak > 0
  /\ usingBarcodeAPI
  /\ \E s \in InitRuns : Within(s) /\ s.usingBarcodeAPI /\ s.zeroFrameStreak = 0
  /\ \E s \in InitRuns : Within(s) /\ ~s.usingBarcodeAPI /\ s.zeroFrameStreak = 0

\* C22: while the paused prop is true and no start() or resume is under way,
\* no frame is requested, no detection call is pending and state.running is
\* false.
C22_PausedMeansIdle ==
  (props.paused /\ Pending(Cur) = 0) => (Chains(Cur) = 0 /\ ~state.running)

\* C23: a rejection of getUserMedia, whichever handler called start(), emits
\* one error event, starts no new acquisition, and leaves state.running false
\* with no frame requested by the failing call.
C23_AcquireFailureSurfaced ==
  \A s \in GumRejectEffects :
    /\ CountEvents(s.out, "error") = 1
    /\ Starting(s) = Starting(Cur) - 1
    /\ ~s.state.running
    /\ ~s.sched

\* the detect events a frame that ended with the result array `results` owes
DetectsDue(results) ==
  IF filterResults(results, props, video.attached) # <<>> /\ props.detectEnabled
    THEN 1 ELSE 0

\* C24: a frame emits the detect event once when the results left by the ROI
\* filter are not empty and detectEnabled is true, and never otherwise; with
\* detectEnabled false no handler emits detect, and a frame that ends without
\* an error still draws the overlay once.
C24_DetectOncePerFrame ==
  /\ \A res \in NativeOutcomes :
       loops["native"] > 0
         => CountEvents(afterNative(Cur, res).out, "detect") = DetectsDue(res.results)
  /\ \A res \in WasmOutcomes :
       loops["wasm"] > 0
         => CountEvents(afterWasm(Cur, res).out, "detect")
              = DetectsDue(Translate(res.results, props))
  /\ \A s \in LoopRuns : ~HasEvent(s.out, "detect")
  /\ ~props.detectEnabled => \A s \in HandlerRuns : ~HasEvent(s.out, "detect")
  /\ \A s \in FrameRuns :
       (s.ticks + s.detects > 0 \/ s \in DoneEffects)
         /\ s.detects = 0 /\ ~HasEvent(s.out, "error") /\ video.attached
       => s.draws = 1

\* detectEnabled is false and a native call is pending: a result inside the ROI
\* ends the frame with one draw, a frame request and no detect event
C24_Witness ==
  /\ ~props.detectEnabled
  /\ video.attached
  /\ loops["native"] > 0
  /\ LET s == afterNative(Cur, Ok(<<Code(TRUE, PolyIn)>>))
     IN Within(s) /\ s \in NativeEffects /\ s.draws = 1 /\ s.raf /\ s.out = <<>>

\* C25: a handler run that calls a detection backend hands it the rectangle
\* of roiRect when useRoi is true and the whole frame when it is false.
C25_BackendGetsCrop ==
  \A s \in HandlerRuns :
    s.detects > 0
      => s.region = (IF props.useRoi THEN roiRect(VideoWidth, VideoHeight, props)
                     ELSE [x |-> 0, y |-> 0, w |-> VideoWidth, h |-> VideoHeight])

\* the camera and engine fields of a session
Kept(s) ==
  <<s.stream, s.leaked, s.detector, s.usingBarcodeAPI, s.zeroFrameStreak,
    s.bdStartTs, Starting(s)>>

\* C26: with releaseOnPause false and a live stream held, setting paused to
\* false runs no initDetector and no start(), and leaves the stream, the
\* engine, zeroFrameStreak and bdStartTs as they are, both up to the await on
\* video.play() and after it; the resume sets state.running and adds exactly
\* one frame cycle, by its call of loop().
C26_ResumeKeepsStreamAndEngine ==
  /\ (props.paused /\ ~props.releaseOnPause /\ stream = "live")
       => \A s \in ResumeEffects :
            /\ Kept(s) = Kept(Cur)
            /\ s.inits = 0
            /\ \/ s.resumes = resumes + 1 /\ Chains(s) = Chains(Cur)
               \/ /\ s.resumes = resumes
                  /\ s.state.running
                  /\ Chains(s) = Chains(Cur) + 1
  /\ video.attached
       => \A s \in ResumePlayEffects :
            /\ Kept(s) = Kept(Cur)
            /\ s.inits = 0
            /\ s.state.running
            /\ s.resumes = resumes - 1
            /\ Chains(s) = Chains(Cur) + 1

\* a session with empty native results counted was paused with its stream
\* kept and is being resumed: video.play() is awaited, no frame cycle is
\* alive, and the resume ends with one cycle and the streak as it was
C26_Witness ==
  /\ ~props.paused
  /\ stream = "live"
  /\ usingBarcodeAPI
  /\ zeroFrameStreak > 0
  /\ resumes = 1
  /\ Chains(Cur) = 0
  /\ \E s \in ResumePlayEffects :
       Within(s) /\ Chains(s) = 1 /\ s.zeroFrameStreak = zeroFrameStreak /\ s.stream = "live"

\* C27: a handler run takes the engine off native only by re-running
\* initDetector, on a rejected native call, or on an empty native result when a
\* rule that is configured above 0 has tripped: the timeout when bdTimeoutMs > 0
\* and that much time has passed, the streak when bdMaxZeroFrames > 0 and that
\* many empty results came in a row.  A rule set to 0 never trips.
C27_ZeroDisablesRule ==
  \A s \in HandlerRuns :
    (usingBarcodeAPI /\ ~s.usingBarcodeAPI)
      => \/ s.inits > 0
         \/ s.nativeRes = "error"
         \/ /\ s.nativeRes = "empty"
            /\ \/ props.bdTimeoutMs > 0 /\ now - bdStartTs >= props.bdTimeoutMs
               \/ props.bdMaxZeroFrames > 0 /\ hist.emptyRun + 1 >= props.bdMaxZeroFrames

\* both rules are 0, time has passed since the native engine was entered and
\* MaxStreak empty results came in a row: the engine is still native
C27_Witness ==
  /\ props.bdTimeoutMs = 0
  /\ props.bdMaxZeroFrames = 0
  /\ usingBarcodeAPI
  /\ now > bdStartTs
  /\ hist.emptyRun >= MaxStreak
  /\ zeroFrameStreak >= MaxStreak

SegLen(g) == g.to - g.from     \* doubled

\* C28: every straight segment drawCornerBorder strokes is at most half as
\* long as the ROI edge it lies on, and the two segments on one edge do not
\* overlap.
C28_BracketsWithinHalfEdge ==
  (calc.fn = "drawCornerBorder" /\ calc.done)
    => /\ \A c \in {"tl", "tr", "br", "bl"} :
            /\ SegLen(calc.segs[c].hor) <= calc.w
            /\ SegLen(calc.segs[c].ver) <= calc.h
       /\ calc.segs.tl.hor.to <= calc.segs.tr.hor.from
       /\ calc.segs.bl.hor.to <= calc.segs.br.hor.from
       /\ calc.segs.tl.ver.to <= calc.segs.bl.ver.from
       /\ calc.segs.tr.ver.to <= calc.segs.br.ver.from

\* C29: a resume leaves the session running (state.running, a frame cycle
\* alive, no start() or resume under way) only with a stream whose tracks are
\* live, after whatever sequence of pause, resume and switchCamera.
C29_RunningOnLiveStream ==
  \A s \in ResumeEffects \cup ResumePlayEffects :
    (s.state.running /\ Chains(s) > 0 /\ Pending(s) = 0) => s.stream = "live"

\* C30: no stream with live tracks is ever abandoned by overwriting its
\* handle, and once the component is unmounted it holds no stream with live
\* tracks.
C30_NoStreamLeak ==
  /\ leaked = 0
  /\ lifecycle = "unmounted" => stream # "live"

====
